---- MODULE Spec2Model ----
(***************************************************************************)
(* Travel-Price: the scheduled scraping and alerting pipeline.             *)
(*                                                                         *)
(* The model follows the backend as the repository describes it in the     *)
(* Feature 4 and Feature 5 implementation plans (PriceWatchService,        *)
(* ScraperService, the Celery tasks and the worker session).  Time is in   *)
(* minutes.  One worker session holds the writes of a task until the task  *)
(* commits; a worker that dies loses its session.                          *)
(***************************************************************************)
EXTENDS Integers, Sequences, FiniteSets, TLC

VARIABLES now, watches, snapshots, alerts, nextId, task, limiter,
          form, localStorage, authStore, req, keychain, isRefreshing, calls

\* the backend: database rows, task state and the rate limiter's counters
backend == <<now, watches, snapshots, alerts, nextId, task, limiter>>

\* the clients: the watch form, the web client's token storage, auth store and
\* request, the iOS client's Keychain tokens, refresh flag and calls
clients == <<form, localStorage, authStore, req, keychain, isRefreshing, calls>>

vars == <<backend, clients>>

(***************************************************************************)
(* Bounds of the model.                                                    *)
(***************************************************************************)
\* the clock advances in steps of ClockStep minutes, up to MaxTime
ClockStep == 30
MaxTime == 60
\* a provider returns at most MaxResults PriceResults per scrape
MaxResults == 2
\* at most MaxSnapshots PriceSnapshot rows are ever created
MaxSnapshots == 2
\* per-tick cap on the number of watches (scrape_batch_size, scaled down)
BatchSize == 1
\* requests a provider may get per window (rate_limit_requests, scaled down)
RateLimitRequests == 1

(***************************************************************************)
(* Program constants.                                                      *)
(***************************************************************************)
\* datetime | None
NULL == -1
\* check_interval_minutes: ge=30
MinCheckInterval == 30
\* alert_cooldown_hours: ge=1
MinCooldownHours == 1
\* minutes in an hour (alert_cooldown_hours is in hours, the clock in minutes)
MinutesPerHour == 60
\* BaseScraper.max_retries and BaseScraper.base_delay (seconds)
MaxRetries == 3
BaseDelay == 1

Watches == {1, 2}
\* the worker running the Beat task and the worker running the on-demand task
Beat == "beat"
Manual == "manual"
Procs == {Beat, Manual}
\* prices in cents: below the target price, and equal to it
TargetPrice == 2
Prices == {TargetPrice - 1, TargetPrice}

\* the results a provider can return: sequences of prices of length 0..MaxResults
PriceLists == UNION {[1..n -> Prices] : n \in 0..MaxResults}

\* every ordering of a finite set, as sequences without repetition
Orderings(S) ==
    {s \in [1..Cardinality(S) -> S] : \A i, j \in 1..Cardinality(S) : s[i] = s[j] => i = j}

(***************************************************************************)
(* PriceWatchService: the due-watch query and mark_checked.                *)
(***************************************************************************)
\* (mutant) the is_active filter is missing
IsDueIgnoringActive(w, t) ==
    \/ w.last_checked_at = NULL
    \/ w.last_checked_at + w.check_interval_minutes < t

\* (mutant) the IS NULL branch is missing
IsDueWithoutNull(w, t) ==
    /\ w.is_active
    /\ w.last_checked_at + w.check_interval_minutes < t

\* (mutant) the comparison is <= instead of <
IsDueInclusive(w, t) ==
    /\ w.is_active
    /\ \/ w.last_checked_at = NULL
       \/ w.last_checked_at + w.check_interval_minutes <= t

\* the due predicate of get_due_watches on one row
IsDue(w, t) ==
    /\ w.is_active
    /\ \/ w.last_checked_at = NULL
       \/ w.last_checked_at + w.check_interval_minutes < t

\* get_due_watches(): all active watches that are due (no limit, no order)
get_due_watches(ws, t) == {w \in Watches : IsDue(ws[w], t)}

\* mark_checked(watch_id): last_checked_at = now(), in the caller's session
mark_checked(checked, w, t) == [checked EXCEPT ![w] = t]

(***************************************************************************)
(* ScraperService.scrape_trip, step 5: one PriceSnapshot per PriceResult.  *)
(***************************************************************************)
\* (mutant) every snapshot of one scrape gets the same id
store_results_same_id(w, prices, firstId) ==
    [i \in 1..Len(prices) |->
        [id |-> firstId, watch |-> w, price |-> prices[i]]]

\* (mutant) the last PriceResult is not stored
store_results_drop_last(w, prices, firstId) ==
    [i \in 1..(Len(prices) - 1) |->
        [id |-> firstId + i - 1, watch |-> w, price |-> prices[i]]]

store_results(w, prices, firstId) ==
    [i \in 1..Len(prices) |->
        [id |-> firstId + i - 1, watch |-> w, price |-> prices[i]]]

(***************************************************************************)
(* AlertEvaluator.evaluate(watch, snapshots).                              *)
(***************************************************************************)
\* index of the cheapest snapshot, the first one on ties (0 when there is none)
MinIndex(snaps) ==
    IF snaps = <<>> THEN 0
    ELSE CHOOSE i \in 1..Len(snaps) :
            /\ \A j \in 1..Len(snaps) : snaps[i].price <= snaps[j].price
            /\ \A j \in 1..(i - 1) : snaps[j].price > snaps[i].price

Cooldown(w) == w.alert_cooldown_hours * MinutesPerHour

CooldownElapsed(w, t) ==
    \/ w.last_alerted_at = NULL
    \/ w.last_alerted_at + Cooldown(w) <= t

\* (mutant) a price equal to the target triggers too
BelowOrAtTarget(price, w) == price <= w.target_price

\* the threshold comparison: strictly below the target
BelowTarget(price, w) == price < w.target_price

\* whether evaluate() raises an alert for watch row w on the stored snapshots
Triggers(w, snaps, t) ==
    /\ snaps # <<>>
    /\ BelowTarget(snaps[MinIndex(snaps)].price, w)
    /\ CooldownElapsed(w, t)

NewAlert(wid, w, snaps, t) ==
    [watch |-> wid,
     snapshot |-> snaps[MinIndex(snaps)].id,
     target_price |-> w.target_price,
     triggered_price |-> snaps[MinIndex(snaps)].price,
     status |-> "pending",
     created_at |-> t]

(***************************************************************************)
(* The scrapers: registry, rate limit and retry of BaseScraper.execute.    *)
(***************************************************************************)
GoogleFlights == "google_flights"
MockProvider == "mock_provider"
UnknownProvider == "unknown"

\* SCRAPER_REGISTRY: the provider names that have a scraper class
SCRAPER_REGISTRY == {GoogleFlights, MockProvider}

\* the provider names a watch row can carry
Providers == SCRAPER_REGISTRY \cup {UnknownProvider}

\* the values max_retries is configured with
RetryConfigs == 0..MaxRetries

NoCount == [prov \in Providers |-> 0]

\* (mutant) the limiter lets one request more through
allow_one_more(l, prov, up) == (~up) \/ l.count[prov] <= RateLimitRequests

\* (mutant) the limiter refuses when the counter store cannot be reached
allow_fail_closed(l, prov, up) == up /\ l.count[prov] < RateLimitRequests

\* _check_rate_limit: whether a request to prov may go out; up tells whether Redis
\* can be reached, and without Redis the check is skipped
allow(l, prov, up) == (~up) \/ l.count[prov] < RateLimitRequests

\* (mutant) one counter key for all providers
consume_shared_key(l, prov, up) ==
    IF up THEN [l EXCEPT !.count = [q \in Providers |-> l.count[q] + 1]] ELSE l

\* the counter of prov after an allowed request: one atomic increment
consume(l, prov, up) ==
    IF up THEN [l EXCEPT !.count[prov] = @ + 1] ELSE l

\* the window ends: the counters expire
expire(l) == [l EXCEPT !.count = NoCount, !.granted = NoCount]

RECURSIVE Pow2(_)
Pow2(k) == IF k <= 0 THEN 1 ELSE 2 * Pow2(k - 1)

\* (mutant) the delay grows linearly
backoff_delay_linear(k) == BaseDelay * k

\* the wait before retry k (k >= 1): base_delay * 2^(k-1)
backoff_delay(k) == BaseDelay * Pow2(k - 1)

\* (mutant) every failure is retried
should_retry_any(kind, attempts, n) == attempts <= n

\* (mutant) one retry too few
should_retry_one_less(kind, attempts, n) == kind = "retryable" /\ attempts < n

\* whether _retry_with_backoff calls scrape() again after the failure of attempt
\* number attempts, with max_retries = n
should_retry(kind, attempts, n) == kind = "retryable" /\ attempts <= n

(***************************************************************************)
(* State.                                                                  *)
(***************************************************************************)
NoChecked == [w \in Watches |-> NULL]

IdleTask ==
    [pc |-> "idle", kind |-> "none", batch |-> <<>>, idx |-> 0,
     total |-> 0, succeeded |-> 0, failed |-> 0,
     selected_at |-> NULL, called_at |-> NULL, fetched |-> <<>>, stored |-> <<>>, alert |-> <<>>,
     sess_snaps |-> <<>>, sess_checked |-> NoChecked,
     max_retries |-> 0, attempts |-> 0, delays |-> <<>>, error |-> "none",
     last_exc |-> "none", rate_check |-> "none", raised |-> FALSE]

\* the web client: nothing stored, the auth store as created, no request running
NoTokens == [access_token |-> NULL, refresh_token |-> NULL]

InitialAuthState ==
    [accessToken |-> NULL, refreshToken |-> NULL, isAuthenticated |-> FALSE,
     isHydrated |-> FALSE]

IdleRequest ==
    [pc |-> "idle", retry |-> TRUE, authorization |-> NULL, refreshes |-> 0,
     fetches |-> 0, newToken |-> NULL, error |-> "none"]

\* the iOS client: an empty Keychain, no call running
Calls == {1, 2}

NoKeychainTokens == [accessToken |-> NULL, refreshToken |-> NULL]

IdleCall ==
    [pc |-> "idle", method |-> "none", authorization |-> NULL, stored |-> NULL,
     refresh_sent |-> NULL, retry_authorization |-> NULL, auth_failure |-> FALSE,
     error |-> "none"]

\* no watch form is open
NoForm ==
    [client |-> "none", target_price |-> 0, alert_cooldown_hours |-> 0,
     state |-> "closed", payload |-> <<>>]

\* the clients are not running
ClientsIdle ==
    /\ form = NoForm
    /\ localStorage = NoTokens
    /\ authStore = InitialAuthState
    /\ req = IdleRequest
    /\ keychain = NoKeychainTokens
    /\ isRefreshing = FALSE
    /\ calls = [c \in Calls |-> IdleCall]

Init ==
    /\ now = 0
    /\ watches \in [Watches ->
            [is_active : BOOLEAN,
             target_price : {TargetPrice},
             check_interval_minutes : {MinCheckInterval},
             alert_cooldown_hours : {MinCooldownHours},
             last_checked_at : {NULL},
             last_alerted_at : {NULL},
             provider : {GoogleFlights}]]
    /\ snapshots = {}
    /\ alerts = {}
    /\ nextId = 1
    /\ task = [p \in Procs |-> IdleTask]
    /\ limiter = [count |-> NoCount, granted |-> NoCount]
    /\ ClientsIdle

\* the watch the task is working on
Current(p) == task[p].batch[task[p].idx]

\* the pc after the loop body of watch idx: the next watch, or the commit
AfterWatch(p) ==
    IF task[p].idx < Len(task[p].batch) THEN "scraping" ELSE "committing"

(***************************************************************************)
(* The clock.                                                              *)
(***************************************************************************)
Tick ==
    /\ now + ClockStep <= MaxTime
    /\ now' = now + ClockStep
    /\ limiter' = expire(limiter)
    /\ UNCHANGED <<watches, snapshots, alerts, nextId, task, clients>>

(***************************************************************************)
(* The tasks.                                                              *)
(***************************************************************************)
\* Beat delivers scrape_due_watches to a worker, which opens its session
StartTick ==
    /\ task[Beat].pc = "idle"
    /\ task' = [task EXCEPT ![Beat] = [IdleTask EXCEPT !.pc = "selecting", !.kind = "tick"]]
    /\ UNCHANGED <<now, watches, snapshots, alerts, nextId, limiter, clients>>

\* (mutant) the query marks the watches it returns as checked
SelectMarking(p) ==
    /\ task[p].pc = "selecting"
    /\ \E order \in Orderings(get_due_watches(watches, now)) :
        /\ task' = [task EXCEPT ![p].batch = order,
                                ![p].idx = IF order = <<>> THEN 0 ELSE 1,
                                ![p].total = Len(order),
                                ![p].selected_at = now,
                                ![p].called_at = IF order = <<>> THEN NULL ELSE now,
                                ![p].pc = IF order = <<>> THEN "committing" ELSE "scraping"]
        /\ watches' = [w \in Watches |->
                IF \E i \in 1..Len(order) : order[i] = w
                THEN [watches[w] EXCEPT !.last_checked_at = now]
                ELSE watches[w]]
    /\ UNCHANGED <<now, snapshots, alerts, nextId, limiter, clients>>

\* due_watches = await watch_service.get_due_watches(); results = {...}
Select(p) ==
    /\ task[p].pc = "selecting"
    /\ \E order \in Orderings(get_due_watches(watches, now)) :
        task' = [task EXCEPT ![p].batch = order,
                             ![p].idx = IF order = <<>> THEN 0 ELSE 1,
                             ![p].total = Len(order),
                             ![p].selected_at = now,
                             ![p].called_at = IF order = <<>> THEN NULL ELSE now,
                             ![p].pc = IF order = <<>> THEN "committing" ELSE "scraping"]
    /\ UNCHANGED <<now, watches, snapshots, alerts, nextId, limiter, clients>>

\* scrape_single_watch(watch_id): the same path for one watch, due or not
StartSingle(w) ==
    /\ task[Manual].pc = "idle"
    /\ task' = [task EXCEPT ![Manual] =
            [IdleTask EXCEPT !.pc = "scraping", !.kind = "single", !.batch = <<w>>,
                             !.idx = 1, !.total = 1, !.called_at = now]]
    /\ UNCHANGED <<now, watches, snapshots, alerts, nextId, limiter, clients>>

\* scrape_trip succeeds: the scraper returns its PriceResults (steps 1-4) and each
\* one is stored as a PriceSnapshot in the session (steps 5-6)
ScrapeOk(p, prices) ==
    /\ task[p].pc = "scraping"
    /\ nextId + Len(prices) - 1 <= MaxSnapshots
    /\ LET new == store_results(Current(p), prices, nextId)
       IN /\ task' = [task EXCEPT ![p].fetched = prices,
                                  ![p].stored = new,
                                  ![p].sess_snaps = @ \o new,
                                  ![p].pc = "marking"]
          /\ nextId' = nextId + Len(new)
    /\ UNCHANGED <<now, watches, snapshots, alerts, limiter, clients>>

\* scrape_trip raises; the loop's except branch counts the failure
ScrapeFail(p) ==
    /\ task[p].pc = "scraping"
    /\ task' = [task EXCEPT ![p].failed = @ + 1,
                            ![p].idx = IF AfterWatch(p) = "scraping" THEN @ + 1 ELSE @,
                            ![p].called_at = IF AfterWatch(p) = "scraping" THEN now ELSE @,
                            ![p].pc = AfterWatch(p)]
    /\ UNCHANGED <<now, watches, snapshots, alerts, nextId, limiter, clients>>

\* await watch_service.mark_checked(watch.id)
MarkChecked(p) ==
    /\ task[p].pc = "marking"
    /\ task' = [task EXCEPT ![p].sess_checked = mark_checked(@, Current(p), now),
                            ![p].pc = "evaluating"]
    /\ UNCHANGED <<now, watches, snapshots, alerts, nextId, limiter, clients>>

\* (mutant) the alert is created but last_alerted_at is not updated in the same step
EvaluateNoUpdate(p) ==
    /\ task[p].pc = "evaluating"
    /\ LET wid == Current(p)
           w == watches[wid]
       IN IF Triggers(w, task[p].stored, now)
          THEN /\ alerts' = alerts \cup {NewAlert(wid, w, task[p].stored, now)}
               /\ task' = [task EXCEPT ![p].alert = <<NewAlert(wid, w, task[p].stored, now)>>,
                                       ![p].pc = "counting"]
          ELSE /\ task' = [task EXCEPT ![p].alert = <<>>, ![p].pc = "counting"]
               /\ UNCHANGED alerts
    /\ UNCHANGED <<now, watches, snapshots, nextId, limiter, clients>>

\* AlertEvaluator.evaluate(watch, snapshots): one step on the watch row
Evaluate(p) ==
    /\ task[p].pc = "evaluating"
    /\ LET wid == Current(p)
           w == watches[wid]
       IN IF Triggers(w, task[p].stored, now)
          THEN /\ alerts' = alerts \cup {NewAlert(wid, w, task[p].stored, now)}
               /\ watches' = [watches EXCEPT ![wid].last_alerted_at = now]
               /\ task' = [task EXCEPT ![p].alert = <<NewAlert(wid, w, task[p].stored, now)>>,
                                       ![p].pc = "counting"]
          ELSE /\ task' = [task EXCEPT ![p].alert = <<>>, ![p].pc = "counting"]
               /\ UNCHANGED <<alerts, watches>>
    /\ UNCHANGED <<now, snapshots, nextId, limiter, clients>>

\* results["succeeded"] += 1, and on to the next watch
Count(p) ==
    /\ task[p].pc = "counting"
    /\ task' = [task EXCEPT ![p].succeeded = @ + 1,
                            ![p].fetched = <<>>,
                            ![p].stored = <<>>,
                            ![p].alert = <<>>,
                            ![p].max_retries = 0,
                            ![p].attempts = 0,
                            ![p].delays = <<>>,
                            ![p].last_exc = "none",
                            ![p].rate_check = "none",
                            ![p].idx = IF AfterWatch(p) = "scraping" THEN @ + 1 ELSE @,
                            ![p].called_at = IF AfterWatch(p) = "scraping" THEN now ELSE @,
                            ![p].pc = AfterWatch(p)]
    /\ UNCHANGED <<now, watches, snapshots, alerts, nextId, limiter, clients>>

\* (mutant) the commit writes the whole row back and clears last_alerted_at
commit_checked_whole_row(ws, checked) ==
    [w \in Watches |->
        IF checked[w] = NULL THEN ws[w]
        ELSE [ws[w] EXCEPT !.last_checked_at = checked[w], !.last_alerted_at = NULL]]

\* (mutant) the commit also switches the checked watch off
commit_checked_deactivating(ws, checked) ==
    [w \in Watches |->
        IF checked[w] = NULL THEN ws[w]
        ELSE [ws[w] EXCEPT !.last_checked_at = checked[w], !.is_active = FALSE]]

\* the session's writes reach the database
commit_checked(ws, checked) ==
    [w \in Watches |->
        IF checked[w] = NULL THEN ws[w]
        ELSE [ws[w] EXCEPT !.last_checked_at = checked[w]]]

\* get_worker_session: await session.commit(); the task returns its summary
Commit(p) ==
    /\ task[p].pc = "committing"
    /\ snapshots' = snapshots \cup {task[p].sess_snaps[i] : i \in 1..Len(task[p].sess_snaps)}
    /\ watches' = commit_checked(watches, task[p].sess_checked)
    /\ task' = [task EXCEPT ![p] = [IdleTask EXCEPT !.pc = "done",
                                                    !.kind = task[p].kind,
                                                    !.total = task[p].total,
                                                    !.succeeded = task[p].succeeded,
                                                    !.failed = task[p].failed]]
    /\ UNCHANGED <<now, alerts, nextId, limiter, clients>>

\* the task's result is delivered and the worker is free again
Ack(p) ==
    /\ task[p].pc = "done"
    /\ task' = [task EXCEPT ![p] = IdleTask]
    /\ UNCHANGED <<now, watches, snapshots, alerts, nextId, limiter, clients>>

\* the worker dies mid-task: its uncommitted session is lost, the task is not acked
Crash(p) ==
    /\ task[p].pc \notin {"idle", "done", "crashed"}
    /\ task' = [task EXCEPT ![p] = [IdleTask EXCEPT !.pc = "crashed",
                                                    !.kind = task[p].kind,
                                                    !.batch = task[p].batch,
                                                    !.selected_at = task[p].selected_at]]
    /\ UNCHANGED <<now, watches, snapshots, alerts, nextId, limiter, clients>>

\* task_acks_late: the unacked task is delivered again and starts over
Redeliver(p) ==
    /\ task[p].pc = "crashed"
    /\ task' = [task EXCEPT ![p] =
            IF task[p].kind = "tick"
            THEN [IdleTask EXCEPT !.pc = "selecting", !.kind = "tick"]
            ELSE [IdleTask EXCEPT !.pc = "scraping", !.kind = "single",
                                  !.batch = task[p].batch, !.idx = 1, !.total = 1,
                                  !.called_at = now]]
    /\ UNCHANGED <<now, watches, snapshots, alerts, nextId, limiter, clients>>

\* no task is running on any worker
AllIdle == \A p \in Procs : task[p].pc = "idle"

\* one worker process: a task starts when the worker is free
Next ==
    \/ Tick
    \/ AllIdle /\ StartTick
    \/ \E p \in Procs : Select(p)
    \/ \E w \in Watches : AllIdle /\ StartSingle(w)
    \/ \E p \in Procs, prices \in PriceLists : ScrapeOk(p, prices)
    \/ \E p \in Procs : ScrapeFail(p)
    \/ \E p \in Procs : MarkChecked(p)
    \/ \E p \in Procs : Evaluate(p)
    \/ \E p \in Procs : Count(p)
    \/ \E p \in Procs : Commit(p)
    \/ \E p \in Procs : Ack(p)
    \/ \E p \in Procs : Crash(p)
    \/ \E p \in Procs : Redeliver(p)

Spec == Init /\ [][Next]_vars

(***************************************************************************)
(* Two worker processes: the Beat task and an on-demand task may overlap.  *)
(* The provider returns one price below the target, so that every          *)
(* evaluation is a candidate for an alert.                                 *)
(***************************************************************************)
RacePriceLists == {<<TargetPrice - 1>>}

InitRace ==
    /\ Init
    /\ \A w \in Watches : watches[w].is_active

NextRace ==
    \/ Tick
    \/ StartTick
    \/ \E p \in Procs : Select(p)
    \/ \E w \in Watches : StartSingle(w)
    \/ \E p \in Procs, prices \in RacePriceLists : ScrapeOk(p, prices)
    \/ \E p \in Procs : ScrapeFail(p)
    \/ \E p \in Procs : MarkChecked(p)
    \/ \E p \in Procs : Evaluate(p)
    \/ \E p \in Procs : Count(p)
    \/ \E p \in Procs : Commit(p)
    \/ \E p \in Procs : Ack(p)

SpecRace == InitRace /\ [][NextRace]_vars

(***************************************************************************)
(* scrape_trip in steps: get_scraper, BaseScraper.execute (rate-limit      *)
(* check, retry loop around scrape()) and the storing of the results.      *)
(***************************************************************************)
\* step 3: get_scraper(provider) instantiates the scraper (max_retries = n), or
\* raises for a name that is not in SCRAPER_REGISTRY
GetScraper(p, n) ==
    /\ task[p].pc = "scraping"
    /\ IF watches[Current(p)].provider \in SCRAPER_REGISTRY
       THEN task' = [task EXCEPT ![p].max_retries = n, ![p].pc = "limiting"]
       ELSE task' = [task EXCEPT ![p].error = "unknown_provider",
                                 ![p].raised = TRUE,
                                 ![p].pc = "failed"]
    /\ UNCHANGED <<now, watches, snapshots, alerts, nextId, limiter, clients>>

\* execute(): _check_rate_limit raises when the provider's budget is used up; up
\* tells whether Redis can be reached at the time of the check
CheckRateLimit(p, up) ==
    /\ task[p].pc = "limiting"
    /\ LET prov == watches[Current(p)].provider
       IN IF allow(limiter, prov, up)
          THEN /\ limiter' = [consume(limiter, prov, up) EXCEPT
                                !.granted[prov] = IF up THEN @ + 1 ELSE @]
               /\ task' = [task EXCEPT
                                ![p].rate_check = IF up THEN "allowed" ELSE "skipped",
                                ![p].pc = "attempting"]
          ELSE /\ limiter' = limiter
               /\ task' = [task EXCEPT ![p].rate_check = "denied",
                                       ![p].error = "rate_limited",
                                       ![p].raised = TRUE,
                                       ![p].pc = "failed"]
    /\ UNCHANGED <<now, watches, snapshots, alerts, nextId, clients>>

\* _retry_with_backoff: one call of scrape() that returns its PriceResults
AttemptOk(p, prices) ==
    /\ task[p].pc = "attempting"
    /\ nextId + Len(prices) - 1 <= MaxSnapshots
    /\ task' = [task EXCEPT ![p].attempts = @ + 1,
                            ![p].fetched = prices,
                            ![p].pc = "storing"]
    /\ UNCHANGED <<now, watches, snapshots, alerts, nextId, limiter, clients>>

\* _retry_with_backoff: one call of scrape() that fails; the loop sleeps and tries
\* again, or raises ScrapeError
AttemptFail(p, kind) ==
    /\ task[p].pc = "attempting"
    /\ LET k == task[p].attempts + 1
       IN IF should_retry(kind, k, task[p].max_retries)
          THEN task' = [task EXCEPT ![p].attempts = k,
                                    ![p].last_exc = kind,
                                    ![p].delays = Append(@, backoff_delay(k))]
          ELSE task' = [task EXCEPT ![p].attempts = k,
                                    ![p].last_exc = kind,
                                    ![p].error = IF kind = "retryable"
                                                 THEN "exhausted" ELSE "terminal",
                                    ![p].raised = TRUE,
                                    ![p].pc = "failed"]
    /\ UNCHANGED <<now, watches, snapshots, alerts, nextId, limiter, clients>>

\* step 5: each PriceResult is stored as a PriceSnapshot in the session
StoreOk(p) ==
    /\ task[p].pc = "storing"
    /\ LET new == store_results(Current(p), task[p].fetched, nextId)
       IN /\ task' = [task EXCEPT ![p].stored = new,
                                  ![p].sess_snaps = @ \o new,
                                  ![p].pc = "marking"]
          /\ nextId' = nextId + Len(new)
    /\ UNCHANGED <<now, watches, snapshots, alerts, limiter, clients>>

\* step 5 fails: the insert raises.  The task has one session and one transaction
\* for the whole batch; the failed statement either leaves it as it was or aborts it,
\* and an aborted transaction loses the writes it held.
StoreFail(p, aborted) ==
    /\ task[p].pc = "storing"
    /\ task' = [task EXCEPT ![p].error = "persistence",
                            ![p].raised = TRUE,
                            ![p].sess_snaps = IF aborted THEN <<>> ELSE @,
                            ![p].sess_checked = IF aborted THEN NoChecked ELSE @,
                            ![p].pc = "failed"]
    /\ UNCHANGED <<now, watches, snapshots, alerts, nextId, limiter, clients>>

\* (mutant) an exception ends the loop: the remaining watches are not processed
CountFailedAborting(p) ==
    /\ task[p].pc = "failed"
    /\ task' = [task EXCEPT ![p].failed = @ + 1,
                            ![p].fetched = <<>>,
                            ![p].max_retries = 0,
                            ![p].attempts = 0,
                            ![p].delays = <<>>,
                            ![p].error = "none",
                            ![p].last_exc = "none",
                            ![p].raised = FALSE,
                            ![p].rate_check = "none",
                            ![p].pc = "committing"]
    /\ UNCHANGED <<now, watches, snapshots, alerts, nextId, limiter, clients>>

\* except Exception: logger.error(...); results["failed"] += 1, and on to the next
\* watch
CountFailed(p) ==
    /\ task[p].pc = "failed"
    /\ task' = [task EXCEPT ![p].failed = @ + 1,
                            ![p].fetched = <<>>,
                            ![p].max_retries = 0,
                            ![p].attempts = 0,
                            ![p].delays = <<>>,
                            ![p].error = "none",
                            ![p].last_exc = "none",
                            ![p].raised = FALSE,
                            ![p].rate_check = "none",
                            ![p].idx = IF AfterWatch(p) = "scraping" THEN @ + 1 ELSE @,
                            ![p].called_at = IF AfterWatch(p) = "scraping" THEN now ELSE @,
                            ![p].pc = AfterWatch(p)]
    /\ UNCHANGED <<now, watches, snapshots, alerts, nextId, limiter, clients>>

\* the provider returns one price at the target
ScrapePriceLists == {<<TargetPrice>>}

\* every watch is active; a watch row may name any provider
InitScrape ==
    /\ now = 0
    /\ watches \in [Watches ->
            [is_active : {TRUE},
             target_price : {TargetPrice},
             check_interval_minutes : {MinCheckInterval},
             alert_cooldown_hours : {MinCooldownHours},
             last_checked_at : {NULL},
             last_alerted_at : {NULL},
             provider : Providers]]
    /\ snapshots = {}
    /\ alerts = {}
    /\ nextId = 1
    /\ task = [p \in Procs |-> IdleTask]
    /\ limiter = [count |-> NoCount, granted |-> NoCount]
    /\ ClientsIdle

\* one worker process, scrape_trip in steps
NextScrape ==
    \/ Tick
    \/ AllIdle /\ StartTick
    \/ \E p \in Procs : Select(p)
    \/ \E w \in Watches : AllIdle /\ StartSingle(w)
    \/ \E p \in Procs, n \in RetryConfigs : GetScraper(p, n)
    \/ \E p \in Procs, up \in BOOLEAN : CheckRateLimit(p, up)
    \/ \E p \in Procs, prices \in ScrapePriceLists : AttemptOk(p, prices)
    \/ \E p \in Procs, kind \in {"retryable", "terminal"} : AttemptFail(p, kind)
    \/ \E p \in Procs : StoreOk(p)
    \/ \E p \in Procs, aborted \in BOOLEAN : StoreFail(p, aborted)
    \/ \E p \in Procs : MarkChecked(p)
    \/ \E p \in Procs : Evaluate(p)
    \/ \E p \in Procs : Count(p)
    \/ \E p \in Procs : CountFailed(p)
    \/ \E p \in Procs : Commit(p)
    \/ \E p \in Procs : Ack(p)

SpecScrape == InitScrape /\ [][NextScrape]_vars

(***************************************************************************)
(* Two worker processes taking tasks from the queue: Beat's periodic task  *)
(* is delivered to whichever worker is free, so two ticks may run at once  *)
(* and share the watch rows and the rate limiter.                          *)
(***************************************************************************)
\* scrape_due_watches is delivered to worker p
StartTickOn(p) ==
    /\ task[p].pc = "idle"
    /\ task' = [task EXCEPT ![p] = [IdleTask EXCEPT !.pc = "selecting", !.kind = "tick"]]
    /\ UNCHANGED <<now, watches, snapshots, alerts, nextId, limiter, clients>>

\* the scrapers of the pool are configured without retries
PoolRetryConfigs == {0}

\* every watch is active and names a registered provider
InitPool ==
    /\ now = 0
    /\ watches \in [Watches ->
            [is_active : {TRUE},
             target_price : {TargetPrice},
             check_interval_minutes : {MinCheckInterval},
             alert_cooldown_hours : {MinCooldownHours},
             last_checked_at : {NULL},
             last_alerted_at : {NULL},
             provider : SCRAPER_REGISTRY]]
    /\ snapshots = {}
    /\ alerts = {}
    /\ nextId = 1
    /\ task = [p \in Procs |-> IdleTask]
    /\ limiter = [count |-> NoCount, granted |-> NoCount]
    /\ ClientsIdle

\* the providers are down: every scrape() call fails
NextPool ==
    \/ Tick
    \/ \E p \in Procs : StartTickOn(p)
    \/ \E p \in Procs : Select(p)
    \/ \E p \in Procs, n \in PoolRetryConfigs : GetScraper(p, n)
    \/ \E p \in Procs, up \in BOOLEAN : CheckRateLimit(p, up)
    \/ \E p \in Procs : AttemptFail(p, "retryable")
    \/ \E p \in Procs : CountFailed(p)
    \/ \E p \in Procs : Commit(p)
    \/ \E p \in Procs : Ack(p)

SpecPool == InitPool /\ [][NextPool]_vars

(***************************************************************************)
(* Properties.                                                             *)
(***************************************************************************)
\* the cheapest price among stored snapshots, and the first index that has it
CheapestPrice(snaps) ==
    CHOOSE m \in {snaps[i].price : i \in 1..Len(snaps)} :
        \A i \in 1..Len(snaps) : m <= snaps[i].price

FirstCheapest(snaps) ==
    CHOOSE i \in 1..Len(snaps) :
        /\ snaps[i].price = CheapestPrice(snaps)
        /\ \A j \in 1..Len(snaps) : snaps[j].price = CheapestPrice(snaps) => i <= j

CooldownMinutes(w) == watches[w].alert_cooldown_hours * MinutesPerHour

\* the step in which worker p runs evaluate() on its current watch
EvalStep(p) == task[p].pc = "evaluating" /\ task'[p].pc = "counting"

\* worker p has just evaluated its current watch
Evaluated(p) == task[p].pc = "counting"

\* C1: once an Alert was created for a watch at time t, no other Alert of that watch
\* is created at a time before t + cooldown, and every Alert that evaluate() returns
\* is a created one, even when the price is still below the target.
C1_NoSecondAlertWithinCooldown ==
    /\ \A a, b \in alerts :
        (a.watch = b.watch /\ a # b /\ a.created_at <= b.created_at)
            => a.created_at + CooldownMinutes(a.watch) <= b.created_at
    /\ \A p \in Procs :
        (Evaluated(p) /\ task[p].alert # <<>>) => task[p].alert[1] \in alerts

\* C1 witness: an evaluation inside the cooldown, with a price below the target,
\* returned no Alert
C1_Witness ==
    \E p \in Procs :
        /\ Evaluated(p)
        /\ task[p].alert = <<>>
        /\ task[p].stored # <<>>
        /\ CheapestPrice(task[p].stored) < watches[Current(p)].target_price
        /\ watches[Current(p)].last_alerted_at # NULL
        /\ now < watches[Current(p)].last_alerted_at + CooldownMinutes(Current(p))
        /\ \E a \in alerts : a.watch = Current(p)

\* C2: when evaluations of one watch overlap on two workers, at most one of them
\* creates an Alert within a cooldown, and the watch row carries the time of its
\* latest Alert as soon as that Alert exists (check and update are one step).
C2_OneAlertPerConcurrentEvaluation ==
    /\ \A p, q \in Procs :
        (/\ p # q
         /\ Evaluated(p) /\ Evaluated(q)
         /\ Current(p) = Current(q)
         /\ task[p].alert # <<>> /\ task[q].alert # <<>>
         /\ task[p].alert[1].created_at <= task[q].alert[1].created_at)
            => task[p].alert[1].created_at + CooldownMinutes(Current(p))
                    <= task[q].alert[1].created_at
    /\ \A w \in Watches : \A a \in alerts :
        a.watch = w =>
            /\ watches[w].last_alerted_at # NULL
            /\ a.created_at <= watches[w].last_alerted_at

\* C2 witness: two overlapping evaluations of one watch both saw a price below the
\* target; one created the Alert and the other returned nothing
C2_Witness ==
    \E p, q \in Procs :
        /\ p # q
        /\ Evaluated(p) /\ Evaluated(q)
        /\ Current(p) = Current(q)
        /\ CheapestPrice(task[p].stored) < watches[Current(p)].target_price
        /\ CheapestPrice(task[q].stored) < watches[Current(q)].target_price
        /\ task[p].alert # <<>>
        /\ task[q].alert = <<>>

\* C3: an evaluation whose cheapest snapshot price is at or above the target price
\* creates no Alert, returns none and leaves last_alerted_at as it was.
C3_NoAlertAtOrAboveTarget ==
    [][\A p \in Procs :
        (/\ EvalStep(p)
         /\ task[p].stored # <<>>
         /\ CheapestPrice(task[p].stored) >= watches[Current(p)].target_price)
            => /\ alerts' = alerts
               /\ task'[p].alert = <<>>
               /\ watches'[Current(p)].last_alerted_at
                    = watches[Current(p)].last_alerted_at]_vars

\* C3 witness: a price equal to the target was evaluated on a watch that never
\* alerted, and no Alert came out
C3_Witness ==
    \E p \in Procs :
        /\ Evaluated(p)
        /\ task[p].stored # <<>>
        /\ CheapestPrice(task[p].stored) = watches[Current(p)].target_price
        /\ watches[Current(p)].last_alerted_at = NULL
        /\ task[p].alert = <<>>
        /\ alerts = {}

\* C4: an evaluation whose cheapest price is below the target, with the cooldown
\* elapsed, creates exactly one pending Alert that references the first cheapest
\* snapshot and carries its price, and sets last_alerted_at to now.
C4_AlertOnCheapestSnapshot ==
    [][\A p \in Procs :
        (/\ EvalStep(p)
         /\ task[p].stored # <<>>
         /\ CheapestPrice(task[p].stored) < watches[Current(p)].target_price
         /\ \/ watches[Current(p)].last_alerted_at = NULL
            \/ watches[Current(p)].last_alerted_at + CooldownMinutes(Current(p)) <= now)
            => LET new == alerts' \ alerts
                   k == FirstCheapest(task[p].stored)
               IN /\ Cardinality(new) = 1
                  /\ alerts \subseteq alerts'
                  /\ \A a \in new :
                        /\ a.status = "pending"
                        /\ a.watch = Current(p)
                        /\ a.target_price = watches[Current(p)].target_price
                        /\ a.triggered_price = CheapestPrice(task[p].stored)
                        /\ a.snapshot = task[p].stored[k].id
                        /\ \A i \in 1..Len(task[p].stored) :
                                task[p].stored[i].id = a.snapshot => i = k
                        /\ a.created_at = now
                        /\ task'[p].alert = <<a>>
                  /\ watches'[Current(p)].last_alerted_at = now]_vars

\* C4 witness: two snapshots tie on the cheapest price and the Alert references the
\* first of them
C4_Witness ==
    \E p \in Procs :
        /\ Evaluated(p)
        /\ Len(task[p].stored) = 2
        /\ task[p].stored[1].price = task[p].stored[2].price
        /\ task[p].alert # <<>>
        /\ task[p].alert[1].snapshot = task[p].stored[1].id
        /\ task[p].alert[1] \in alerts
        /\ watches[Current(p)].last_alerted_at = task[p].alert[1].created_at

\* a Beat task that has selected its batch and has not committed or crashed
InFlightTick(p) ==
    /\ task[p].kind = "tick"
    /\ task[p].pc \in {"scraping", "marking", "evaluating", "counting", "committing"}

InBatch(p, w) == \E i \in 1..Len(task[p].batch) : task[p].batch[i] = w

\* last_checked_at + re-check interval of watch w (w has been checked)
NextCheckAt(w) == watches[w].last_checked_at + watches[w].check_interval_minutes

\* the values the clock takes
ClockTimes == {t \in 0..MaxTime : t % ClockStep = 0}

\* C5: for every now, select() returns no inactive watch and no watch whose
\* last_checked_at + re-check interval is after now; the same holds of the batch of
\* a running tick at the time it was selected.
C5_SelectOnlyActiveAndDue ==
    /\ \A t \in ClockTimes : \A w \in get_due_watches(watches, t) :
        /\ watches[w].is_active
        /\ ~(watches[w].last_checked_at # NULL /\ NextCheckAt(w) > t)
    /\ \A p \in Procs : InFlightTick(p) =>
        \A w \in Watches : InBatch(p, w) =>
            /\ watches[w].is_active
            /\ ~(watches[w].last_checked_at # NULL /\ NextCheckAt(w) > task[p].selected_at)

\* C5 witness: a tick has just selected, and left out an inactive watch and an active
\* watch whose next check lies in the future
C5_Witness ==
    /\ task[Beat].kind = "tick"
    /\ task[Beat].pc = "committing"
    /\ task[Beat].total = 0
    /\ task[Beat].selected_at = now
    /\ \E w \in Watches : ~watches[w].is_active
    /\ \E w \in Watches :
        /\ watches[w].is_active
        /\ watches[w].last_checked_at # NULL
        /\ NextCheckAt(w) > now

\* C6: an active watch that was never checked is due at every time, and is in the
\* batch of a tick whenever the number of due watches does not exceed the batch size.
C6_NeverCheckedIsDue ==
    /\ \A t \in ClockTimes : \A w \in Watches :
        (watches[w].is_active /\ watches[w].last_checked_at = NULL)
            => w \in get_due_watches(watches, t)
    /\ \A p \in Procs :
        (/\ InFlightTick(p)
         /\ Cardinality(get_due_watches(watches, task[p].selected_at)) <= BatchSize)
            => \A w \in Watches :
                (watches[w].is_active /\ watches[w].last_checked_at = NULL)
                    => InBatch(p, w)

\* C6 witness: a tick selected, later than time 0, a never-checked watch within the
\* batch size
C6_Witness ==
    /\ InFlightTick(Beat)
    /\ task[Beat].selected_at > 0
    /\ Len(task[Beat].batch) <= BatchSize
    /\ \E w \in Watches :
        /\ InBatch(Beat, w)
        /\ watches[w].is_active
        /\ watches[w].last_checked_at = NULL

\* C7 (as claimed): an active watch with last_checked_at + re-check interval exactly
\* equal to now is due.
C7_DueAtBoundary ==
    \A w \in Watches :
        (/\ watches[w].is_active
         /\ watches[w].last_checked_at # NULL
         /\ NextCheckAt(w) = now)
            => w \in get_due_watches(watches, now)

\* C7 (amended): a checked active watch is due exactly when last_checked_at +
\* re-check interval is strictly before now; at equality it is not due and a tick
\* selecting at that time leaves it out.
C7_DueStrictlyAfterInterval ==
    /\ \A w \in Watches :
        (watches[w].is_active /\ watches[w].last_checked_at # NULL)
            => \A t \in ClockTimes \cup (NextCheckAt(w) - 1)..(NextCheckAt(w) + 1) :
                w \in get_due_watches(watches, t) <=> NextCheckAt(w) < t
    /\ \A p \in Procs : InFlightTick(p) =>
        \A w \in Watches :
            (/\ watches[w].is_active
             /\ watches[w].last_checked_at # NULL
             /\ NextCheckAt(w) = task[p].selected_at)
                => ~InBatch(p, w)

\* C7 witness: a tick has just selected while an active watch sat exactly on the
\* boundary, and did not select it
C7_Witness ==
    /\ InFlightTick(Beat)
    /\ task[Beat].selected_at = now
    /\ \E w \in Watches :
        /\ watches[w].is_active
        /\ watches[w].last_checked_at # NULL
        /\ NextCheckAt(w) = now
        /\ ~InBatch(Beat, w)

\* C8 (as claimed): a tick's batch holds at most BatchSize watches, and no due watch
\* left out was checked longer ago than a selected one (never checked first).
C8_BatchCappedOldestFirst ==
    \A p \in Procs : InFlightTick(p) =>
        /\ Len(task[p].batch) <= BatchSize
        /\ \A w, v \in Watches :
            (/\ InBatch(p, w)
             /\ ~InBatch(p, v)
             /\ v \in get_due_watches(watches, task[p].selected_at))
                => /\ watches[v].last_checked_at # NULL
                   /\ watches[w].last_checked_at = NULL
                        \/ watches[w].last_checked_at <= watches[v].last_checked_at

\* the step in which worker p leaves pc a for pc b
Moves(p, a, b) == task[p].pc = a /\ task'[p].pc = b

\* C9: selecting changes no watch row; a session's last_checked_at is written only by
\* mark_checked on the watch just scraped, and reaches the row only at the commit; a
\* tick that crashes after selecting leaves every row unchanged and every selected
\* watch due again.
C9_SelectHasNoSideEffect ==
    [][/\ \A p \in Procs :
            (task[p].pc = "selecting" /\ task'[p].pc \in {"scraping", "committing"})
                => watches' = watches
       /\ \A p \in Procs : \A w \in Watches :
            (/\ task'[p].sess_checked[w] # task[p].sess_checked[w]
             /\ task'[p].sess_checked[w] # NULL)
                => /\ Moves(p, "marking", "evaluating")
                   /\ w = Current(p)
                   /\ task'[p].sess_checked[w] = now
       /\ \A w \in Watches :
            watches'[w].last_checked_at # watches[w].last_checked_at
                => \E p \in Procs :
                    /\ Moves(p, "committing", "done")
                    /\ task[p].sess_checked[w] # NULL
                    /\ watches'[w].last_checked_at = task[p].sess_checked[w]
       /\ \A p \in Procs :
            (InFlightTick(p) /\ task'[p].pc = "crashed")
                => /\ watches' = watches
                   /\ snapshots' = snapshots
                   /\ \A w \in Watches :
                        InBatch(p, w) => w \in get_due_watches(watches', now')]_vars

\* C9 witness: a tick crashed after selecting; its watches are unchanged and due
C9_Witness ==
    /\ task[Beat].pc = "crashed"
    /\ task[Beat].kind = "tick"
    /\ task[Beat].batch # <<>>
    /\ now > task[Beat].selected_at
    /\ \A w \in Watches :
        InBatch(Beat, w)
            => /\ watches[w].last_checked_at = NULL
               /\ w \in get_due_watches(watches, now)

\* C10 (as claimed): after a successful run the session holds one new snapshot per
\* PriceResult and last_checked_at equals the time run(watch) was called.
C10_CheckedAtCallTime ==
    \A p \in Procs :
        task[p].pc = "evaluating"
            => /\ Len(task[p].stored) = Len(task[p].fetched)
               /\ task[p].sess_checked[Current(p)] = task[p].called_at

\* the ids of a sequence of snapshots
Ids(snaps) == {snaps[i].id : i \in 1..Len(snaps)}

\* C10 (amended): a successful run stores exactly one new snapshot per PriceResult,
\* none duplicated or dropped, and sets last_checked_at to the time mark_checked
\* ran, which is at or after the time of the call; the commit writes both.
C10_OneSnapshotPerResult ==
    [][/\ \A p \in Procs :
            Moves(p, "marking", "evaluating")
                => LET w == Current(p)
                       got == task[p].fetched
                       new == task[p].stored
                   IN /\ Len(new) = Len(got)
                      /\ \A i \in 1..Len(got) :
                            new[i].price = got[i] /\ new[i].watch = w
                      /\ Cardinality(Ids(new)) = Len(got)
                      /\ \A s \in snapshots : s.id \notin Ids(new)
                      /\ Cardinality({i \in 1..Len(task[p].sess_snaps) :
                            task[p].sess_snaps[i].id \in Ids(new)}) = Len(got)
                      /\ \A i \in 1..Len(new) :
                            \E j \in 1..Len(task[p].sess_snaps) :
                                task[p].sess_snaps[j] = new[i]
                      /\ task'[p].sess_checked[w] = now
                      /\ task[p].called_at # NULL
                      /\ task[p].called_at <= now
       /\ \A p \in Procs :
            Moves(p, "committing", "done")
                => /\ \A w \in Watches :
                        task[p].sess_checked[w] # NULL
                            => watches'[w].last_checked_at = task[p].sess_checked[w]
                   /\ snapshots \subseteq snapshots'
                   /\ \A i \in 1..Len(task[p].sess_snaps) :
                        task[p].sess_snaps[i] \in snapshots'
                   /\ Cardinality(snapshots')
                        = Cardinality(snapshots) + Len(task[p].sess_snaps)]_vars

\* C10 witness: a run that returned two PriceResults stored two snapshots and was
\* marked checked later than it was called
C10_Witness ==
    \E p \in Procs :
        /\ task[p].pc = "evaluating"
        /\ Len(task[p].fetched) = 2
        /\ Len(task[p].stored) = 2
        /\ task[p].sess_checked[Current(p)] = now
        /\ task[p].called_at < now

\* the step in which worker p ends the processing of a watch whose scrape_trip
\* raised with error e
FailedRunEnds(p, e) ==
    /\ task[p].pc = "failed"
    /\ task[p].error = e
    /\ task'[p].pc # "failed"

\* C11 (as claimed): when the run of a watch ends after every attempt failed with a
\* retryable error, the session has last_checked_at = now for the watch and no new
\* snapshot.
C11_CheckedAfterExhaustedRetries ==
    [][\A p \in Procs :
        FailedRunEnds(p, "exhausted")
            => /\ task'[p].sess_checked[Current(p)] = now
               /\ task'[p].sess_snaps = task[p].sess_snaps
               /\ nextId' = nextId]_vars

\* C12 (as claimed): when the run of a watch ends on a rate-limit denial, no scrape()
\* call was made, no snapshot was stored, last_checked_at is unchanged and the
\* failed counter of the summary is unchanged.
C12_DenialNotCountedAsFailure ==
    [][\A p \in Procs :
        FailedRunEnds(p, "rate_limited")
            => /\ task[p].attempts = 0
               /\ task'[p].sess_snaps = task[p].sess_snaps
               /\ task'[p].sess_checked = task[p].sess_checked
               /\ task'[p].failed = task[p].failed]_vars

\* C13 (as claimed): when the run of a watch ends on an unknown provider, no scrape()
\* call was made, no snapshot was stored, and the session has last_checked_at = now
\* for the watch.
C13_CheckedAfterUnknownProvider ==
    [][\A p \in Procs :
        FailedRunEnds(p, "unknown_provider")
            => /\ task[p].attempts = 0
               /\ task[p].delays = <<>>
               /\ task'[p].sess_snaps = task[p].sess_snaps
               /\ task'[p].sess_checked[Current(p)] = now]_vars

\* the pcs of a task that is working on the watch at idx
Working == {"scraping", "limiting", "attempting", "storing", "marking", "evaluating",
            "counting", "failed"}

\* the summary of tick p accounts for the watches processed so far
SummaryAccounts(p) ==
    /\ task[p].pc \in Working
        => /\ task[p].total = Len(task[p].batch)
           /\ task[p].idx \in 1..Len(task[p].batch)
           /\ task[p].succeeded + task[p].failed = task[p].idx - 1
    /\ task[p].pc = "committing"
        => /\ task[p].total = Len(task[p].batch)
           /\ task[p].idx = Len(task[p].batch)
           /\ task[p].succeeded + task[p].failed = task[p].total
    /\ task[p].pc = "done"
        => task[p].succeeded + task[p].failed = task[p].total

\* C14: in a tick, a watch whose processing fails is counted as failed and the loop
\* goes on with the next watch of the batch; a watch is counted as succeeded only
\* after its results were stored and it was marked; the summary has total = batch
\* size and succeeded + failed = total when the tick ends.
C14_FailuresIsolated ==
    /\ [](\A p \in Procs : task[p].kind = "tick" => SummaryAccounts(p))
    /\ [][\A p \in Procs :
            /\ (task[p].pc = "failed" /\ task'[p].pc # "failed")
                => /\ task'[p].failed = task[p].failed + 1
                   /\ task'[p].succeeded = task[p].succeeded
                   /\ IF task[p].idx < Len(task[p].batch)
                      THEN /\ task'[p].pc = "scraping"
                           /\ task'[p].idx = task[p].idx + 1
                           /\ task'[p].batch = task[p].batch
                      ELSE task'[p].pc = "committing"
            /\ task'[p].succeeded # task[p].succeeded
                => \/ task'[p].pc = "idle"
                   \/ /\ task[p].pc = "counting"
                      /\ task'[p].succeeded = task[p].succeeded + 1
                      /\ task'[p].failed = task[p].failed
                      /\ task[p].sess_checked[Current(p)] # NULL
                      /\ \A i \in 1..Len(task[p].stored) :
                            \E j \in 1..Len(task[p].sess_snaps) :
                                task[p].sess_snaps[j] = task[p].stored[i]]_vars

\* C14 witness: the first watch of a batch of two failed, and the second one was
\* scraped, stored and marked all the same
C14_Witness ==
    /\ task[Beat].kind = "tick"
    /\ task[Beat].pc = "counting"
    /\ task[Beat].total = 2
    /\ task[Beat].idx = 2
    /\ task[Beat].failed = 1
    /\ task[Beat].succeeded = 0
    /\ task[Beat].stored # <<>>
    /\ task[Beat].sess_checked[Current(Beat)] = now

\* C15 (as claimed): when the insert of one watch's snapshots fails, the snapshots
\* and last_checked_at updates that the session holds for the other watches of the
\* batch stay in it (to be committed), and the watch is counted as failed, not as
\* succeeded.
C15_PersistenceFailureIsolated ==
    [][\A p \in Procs :
        /\ (task[p].pc = "storing" /\ task'[p].pc = "failed")
            => /\ task'[p].sess_snaps = task[p].sess_snaps
               /\ task'[p].sess_checked = task[p].sess_checked
        /\ FailedRunEnds(p, "persistence")
            => /\ task'[p].failed = task[p].failed + 1
               /\ task'[p].succeeded = task[p].succeeded]_vars

\* the waits of a retry loop that retried n times: BaseDelay * 2^(k-1) before retry k
BackoffDelays(n) == [k \in 1..n |-> BaseDelay * 2^(k - 1)]

\* C16 (as claimed): scrape() failing every time with a retryable error is called
\* max_retries + 1 times with waits BaseDelay * 2^(k-1) before retry k, and the
\* failure is then returned to the caller as a value, not raised.
C16_ExhaustedRetriesReturnFailure ==
    \A p \in Procs :
        task[p].error = "exhausted"
            => /\ task[p].attempts = task[p].max_retries + 1
               /\ task[p].delays = BackoffDelays(task[p].max_retries)
               /\ task[p].last_exc = "retryable"
               /\ ~task[p].raised

\* C16 (amended): scrape() failing every time with a retryable error is called
\* max_retries + 1 times with waits BaseDelay * 2^(k-1) before retry k; then
\* ScrapeError is raised to the caller, and while the loop runs it has waited once
\* per failed attempt and not retried more than max_retries times.
C16_ExhaustedRetriesRaise ==
    \A p \in Procs :
        /\ task[p].error = "exhausted"
            => /\ task[p].attempts = task[p].max_retries + 1
               /\ task[p].delays = BackoffDelays(task[p].max_retries)
               /\ task[p].last_exc = "retryable"
               /\ task[p].raised
               /\ task[p].pc = "failed"
               /\ task[p].fetched = <<>>
        /\ task[p].pc = "attempting"
            => /\ task[p].attempts <= task[p].max_retries
               /\ task[p].delays = BackoffDelays(task[p].attempts)

\* C16 witness: max_retries = 3, four calls of scrape(), waits of 1, 2 and 4 seconds
C16_Witness ==
    \E p \in Procs :
        /\ task[p].error = "exhausted"
        /\ task[p].max_retries = 3
        /\ task[p].attempts = 4
        /\ task[p].delays = <<1, 2, 4>>
        /\ task[p].raised

C18_AtMostNAllowedPerWindow ==
    \A prov \in Providers :
        /\ limiter.granted[prov] <= RateLimitRequests
        /\ limiter.count[prov] = limiter.granted[prov]
        /\ limiter.count[prov] >= RateLimitRequests => ~allow(limiter, prov, TRUE)

\* C18 witness: two workers asked for the same provider in one window; the budget
\* went to one of them and the other was denied, while the other provider's budget
\* is untouched
C18_Witness ==
    \E p, q \in Procs :
        /\ task[p].pc = "attempting" /\ task[p].rate_check = "allowed"
        /\ task[q].pc = "failed" /\ task[q].rate_check = "denied"
        /\ watches[Current(p)].provider = watches[Current(q)].provider
        /\ limiter.granted[watches[Current(p)].provider] = RateLimitRequests
        /\ \E other \in SCRAPER_REGISTRY :
            /\ other # watches[Current(p)].provider
            /\ limiter.count[other] = 0

\* C19: when Redis cannot be reached the limiter allows every provider, whatever the
\* counters are; a worker whose check was skipped goes on to scrape() and is never
\* failed by the limiter.
C19_FailOpen ==
    /\ \A prov \in Providers : allow(limiter, prov, FALSE)
    /\ \A p \in Procs :
        task[p].rate_check = "skipped"
            => /\ task[p].pc \in {"attempting", "storing", "marking", "evaluating",
                                  "counting", "failed"}
               /\ task[p].error # "rate_limited"
               /\ task[p].pc = "failed" => task[p].attempts > 0

\* C19 witness: the provider's budget of the window is used up, Redis is unreachable,
\* and the worker is calling scrape()
C19_Witness ==
    \E p \in Procs :
        /\ task[p].rate_check = "skipped"
        /\ task[p].pc = "attempting"
        /\ limiter.count[watches[Current(p)].provider] = RateLimitRequests
        /\ ~allow(limiter, watches[Current(p)].provider, TRUE)

\* worker p is running a tick
TickRunning(p) ==
    /\ task[p].kind = "tick"
    /\ task[p].pc \in {"selecting", "committing"} \cup Working

\* C20 (as claimed): no two ticks are in progress at once, and no watch is being
\* processed by two ticks at once.
C20_NoOverlappingTicks ==
    \A p, q \in Procs :
        p # q =>
            /\ ~(TickRunning(p) /\ TickRunning(q))
            /\ ~(/\ TickRunning(p) /\ task[p].pc \in Working
                 /\ TickRunning(q) /\ task[q].pc \in Working
                 /\ Current(p) = Current(q))

(***************************************************************************)
(* The periodic task on one worker, run to its end: the worker keeps       *)
(* executing the task it holds, and the selector query may fail.           *)
(***************************************************************************)
\* (mutant) the failed query leaves the task hanging on the worker
SelectFailStuck(p) ==
    /\ task[p].pc = "selecting"
    /\ task' = [task EXCEPT ![p] = [IdleTask EXCEPT !.pc = "crashed",
                                                    !.kind = task[p].kind,
                                                    !.raised = TRUE]]
    /\ UNCHANGED <<now, watches, snapshots, alerts, nextId, limiter, clients>>

\* get_due_watches raises: get_worker_session rolls back and re-raises, the task
\* ends with the exception (max_retries=0: it is not retried)
SelectFail(p) ==
    /\ task[p].pc = "selecting"
    /\ task' = [task EXCEPT ![p] = [IdleTask EXCEPT !.pc = "done",
                                                    !.kind = task[p].kind,
                                                    !.raised = TRUE]]
    /\ UNCHANGED <<now, watches, snapshots, alerts, nextId, limiter, clients>>

\* one step of the task held by the worker
TickStep ==
    \/ Select(Beat)
    \/ SelectFail(Beat)
    \/ \E prices \in RacePriceLists : ScrapeOk(Beat, prices)
    \/ ScrapeFail(Beat)
    \/ MarkChecked(Beat)
    \/ Evaluate(Beat)
    \/ Count(Beat)
    \/ Commit(Beat)
    \/ Ack(Beat)

NextLive ==
    \/ Tick
    \/ StartTick
    \/ TickStep

\* the event loop runs the coroutine until it completes (loop.run_until_complete)
SpecLive == Init /\ [][NextLive]_vars /\ WF_vars(TickStep)

\* the phase of the scheduler's state machine the worker is in
TickPhase(t) ==
    IF t.pc \in {"idle", "done"} THEN "Idle"
    ELSE IF t.pc = "selecting" THEN "Selecting"
    ELSE "Dispatching"

\* C21: the tick changes phase only along Idle -> Selecting -> Dispatching -> Idle
\* (a tick whose selector query raised ends from Selecting); every started tick
\* comes back to Idle with no tick running; and whenever the worker is idle the
\* next trigger can start a tick.
C21_TickReturnsToIdle ==
    /\ [][LET a == TickPhase(task[Beat])
              b == TickPhase(task'[Beat])
          IN a # b =>
               \/ <<a, b>> \in {<<"Idle", "Selecting">>, <<"Selecting", "Dispatching">>,
                                <<"Dispatching", "Idle">>}
               \/ a = "Selecting" /\ b = "Idle" /\ task'[Beat].raised]_vars
    /\ (task[Beat].pc = "selecting") ~> (task[Beat].pc = "idle" /\ ~TickRunning(Beat))
    /\ [](task[Beat].pc = "idle" => ENABLED StartTick)

\* a tick whose selector query failed has ended, and a later tick has started
C21_Witness ==
    /\ task[Beat].pc = "done"
    /\ task[Beat].raised
    /\ now > 0
    /\ \E w \in Watches : watches[w].last_checked_at # NULL

(***************************************************************************)
(* NotificationDispatcher.send(alert): the delivery of a pending Alert,    *)
(* asynchronous to the task that triggered it.                             *)
(***************************************************************************)
\* (mutant) a failed delivery un-triggers the alert: the cooldown is reset
DispatchResetting(a, ok) ==
    /\ a \in alerts
    /\ a.status = "pending"
    /\ alerts' = (alerts \ {a}) \cup {[a EXCEPT !.status = IF ok THEN "sent" ELSE "failed"]}
    /\ watches' = IF ok THEN watches ELSE [watches EXCEPT ![a.watch].last_alerted_at = NULL]
    /\ UNCHANGED <<now, snapshots, nextId, task, limiter, clients>>

\* send(alert) -> Result<Sent, DispatchError>, recorded on the Alert's status
Dispatch(a, ok) ==
    /\ a \in alerts
    /\ a.status = "pending"
    /\ alerts' = (alerts \ {a}) \cup {[a EXCEPT !.status = IF ok THEN "sent" ELSE "failed"]}
    /\ UNCHANGED <<now, watches, snapshots, nextId, task, limiter, clients>>

\* one worker process and the dispatcher
NextNotify ==
    \/ Tick
    \/ AllIdle /\ StartTick
    \/ \E p \in Procs : Select(p)
    \/ \E w \in Watches : AllIdle /\ StartSingle(w)
    \/ \E p \in Procs, prices \in RacePriceLists : ScrapeOk(p, prices)
    \/ \E p \in Procs : ScrapeFail(p)
    \/ \E p \in Procs : MarkChecked(p)
    \/ \E p \in Procs : Evaluate(p)
    \/ \E p \in Procs : Count(p)
    \/ \E p \in Procs : Commit(p)
    \/ \E p \in Procs : Ack(p)
    \/ \E a \in alerts, ok \in BOOLEAN : Dispatch(a, ok)

SpecNotify == InitRace /\ [][NextNotify]_vars

\* what identifies an Alert record whatever its delivery status
AlertKey(a) == <<a.watch, a.snapshot, a.created_at>>

\* C22: an Alert is created pending; its status changes at most once, from pending
\* to sent or failed, in a step that changes nothing but that Alert; no Alert is
\* ever removed; and after a failed delivery last_alerted_at still holds the
\* triggering time, so no other Alert of that watch is created before the cooldown
\* has elapsed.
C22_DispatchOnlyRecordsStatus ==
    /\ [][/\ \A b \in alerts' :
                (\A a \in alerts : AlertKey(a) # AlertKey(b)) => b.status = "pending"
          /\ \A a \in alerts :
                \E b \in alerts' :
                    /\ AlertKey(b) = AlertKey(a)
                    /\ [b EXCEPT !.status = a.status] = a
                    /\ \/ b.status = a.status
                       \/ /\ a.status = "pending"
                          /\ b.status \in {"sent", "failed"}
                          /\ UNCHANGED <<now, watches, snapshots, nextId, task, limiter>>]_vars
    /\ [](\A a \in alerts :
            a.status = "failed" =>
                /\ watches[a.watch].last_alerted_at # NULL
                /\ watches[a.watch].last_alerted_at >= a.created_at
                /\ \A b \in alerts :
                    (b.watch = a.watch /\ AlertKey(b) # AlertKey(a)
                        /\ a.created_at <= b.created_at)
                    => a.created_at + CooldownMinutes(a.watch) <= b.created_at)

\* the delivery of a watch's Alert failed and an evaluation inside the cooldown,
\* on a price below the target, returned no Alert
C22_Witness ==
    \E p \in Procs, a \in alerts :
        /\ a.status = "failed"
        /\ Evaluated(p)
        /\ Current(p) = a.watch
        /\ task[p].alert = <<>>
        /\ task[p].stored # <<>>
        /\ CheapestPrice(task[p].stored) < watches[a.watch].target_price
        /\ now < a.created_at + CooldownMinutes(a.watch)

\* the fields of a watch row that the CRUD layer owns
CrudFields(w) ==
    [is_active |-> w.is_active,
     target_price |-> w.target_price,
     check_interval_minutes |-> w.check_interval_minutes,
     alert_cooldown_hours |-> w.alert_cooldown_hours,
     provider |-> w.provider]

\* C23: no step of a tick or of a manual trigger changes a field of a PriceWatch
\* other than last_checked_at and last_alerted_at, and every PriceSnapshot that
\* exists is still there, unchanged, after the step.
C23_OnlyTimestampsAndNewSnapshots ==
    [][/\ \A w \in Watches : CrudFields(watches'[w]) = CrudFields(watches[w])
       /\ snapshots \subseteq snapshots'
       /\ \A s \in snapshots, t \in snapshots' : s.id = t.id => s = t]_vars

\* later ticks have stored several snapshots and checked a watch that has alerted
C23_Witness ==
    /\ now > 0
    /\ \E s, t \in snapshots : s.id # t.id
    /\ \E w \in Watches :
        /\ watches[w].last_checked_at # NULL
        /\ watches[w].last_alerted_at # NULL

(***************************************************************************)
(* The watch form of the web and iOS clients, and the server's schema for  *)
(* the create request.  Dollar amounts are in thousandths of a dollar, so  *)
(* that amounts below one cent can be entered; payload prices are cents.   *)
(***************************************************************************)
\* the backend is not running
BackendIdle ==
    /\ now = 0
    /\ watches = [w \in Watches |->
            [is_active |-> TRUE, target_price |-> TargetPrice,
             check_interval_minutes |-> MinCheckInterval,
             alert_cooldown_hours |-> MinCooldownHours,
             last_checked_at |-> NULL, last_alerted_at |-> NULL,
             provider |-> GoogleFlights]]
    /\ snapshots = {}
    /\ alerts = {}
    /\ nextId = 1
    /\ task = [p \in Procs |-> IdleTask]
    /\ limiter = [count |-> NoCount, granted |-> NoCount]

\* what the user can enter: amounts of -MaxMills..MaxMills thousandths of a dollar
\* and cooldowns of 0..MaxCooldownInput hours
MaxMills == 15
MaxCooldownInput == 169

\* alert_cooldown_hours: ge=1, le=72 (server); min(1).max(168) and 1...168 (clients)
MaxCooldownHours == 72
ClientMinCooldownHours == 1
ClientMaxCooldownHours == 168
\* target_price: ge=1 (server, cents)
MinTargetPrice == 1

\* Math.round(dollars * 100): half-way cases go up
MathRound(mills) == (mills + 5) \div 10

\* Int(round(value * 100)): half-way cases go away from zero
dollarsToCents(mills) ==
    IF mills >= 0 THEN (mills + 5) \div 10 ELSE 0 - ((5 - mills) \div 10)

\* web: target_price positive, alert_cooldown_hours an integer in 1..168
\* (trip_id comes from the page and provider and currency have defaults)
priceWatchCreateSchema(f) ==
    /\ f.target_price > 0
    /\ f.alert_cooldown_hours >= ClientMinCooldownHours
    /\ f.alert_cooldown_hours <= ClientMaxCooldownHours

\* iOS: Validators.isValidTargetPrice
isValidTargetPrice(mills) == dollarsToCents(mills) > 0

\* iOS: Stepper(value: $cooldownHours, in: 1...168)
StepperRange == ClientMinCooldownHours..ClientMaxCooldownHours

\* (mutant) the server takes what the clients take
PriceWatchCreateRequestClientRange(payload) ==
    /\ payload.target_price >= MinTargetPrice
    /\ payload.alert_cooldown_hours >= MinCooldownHours
    /\ payload.alert_cooldown_hours <= ClientMaxCooldownHours

\* server: PriceWatchCreateRequest
PriceWatchCreateRequest(payload) ==
    /\ payload.target_price >= MinTargetPrice
    /\ payload.alert_cooldown_hours >= MinCooldownHours
    /\ payload.alert_cooldown_hours <= MaxCooldownHours

\* the user has filled in a form
InitForm ==
    /\ BackendIdle
    /\ form \in [client : {"web", "ios"},
                 target_price : (0 - MaxMills)..MaxMills,
                 alert_cooldown_hours : 0..MaxCooldownInput,
                 state : {"editing"},
                 payload : {<<>>}]
    /\ localStorage = NoTokens
    /\ authStore = InitialAuthState
    /\ req = IdleRequest
    /\ keychain = NoKeychainTokens
    /\ isRefreshing = FALSE
    /\ calls = [c \in Calls |-> IdleCall]

\* web WatchForm.handleSubmit: validate, convert dollars to cents, send
handleSubmit ==
    /\ form.client = "web"
    /\ form.state = "editing"
    /\ form' = IF priceWatchCreateSchema(form)
               THEN [form EXCEPT !.state = "sent",
                                 !.payload = <<[target_price |-> MathRound(form.target_price),
                                                alert_cooldown_hours |->
                                                    form.alert_cooldown_hours]>>]
               ELSE [form EXCEPT !.state = "invalid"]
    /\ UNCHANGED <<backend, localStorage, authStore, req, keychain, isRefreshing, calls>>

\* iOS WatchFormView: the Save button is enabled when isFormValid; save() sends
save ==
    /\ form.client = "ios"
    /\ form.state = "editing"
    /\ form' = IF isValidTargetPrice(form.target_price)
                    /\ form.alert_cooldown_hours \in StepperRange
               THEN [form EXCEPT !.state = "sent",
                                 !.payload = <<[target_price |->
                                                    dollarsToCents(form.target_price),
                                                alert_cooldown_hours |->
                                                    form.alert_cooldown_hours]>>]
               ELSE [form EXCEPT !.state = "invalid"]
    /\ UNCHANGED <<backend, localStorage, authStore, req, keychain, isRefreshing, calls>>

\* the server validates the body and stores the watch, or answers 422
create_watch ==
    /\ form.state = "sent"
    /\ form' = [form EXCEPT !.state = IF PriceWatchCreateRequest(form.payload[1])
                                      THEN "created" ELSE "refused"]
    /\ UNCHANGED <<backend, localStorage, authStore, req, keychain, isRefreshing, calls>>

NextForm ==
    \/ handleSubmit
    \/ save
    \/ create_watch

SpecForm == InitForm /\ [][NextForm]_vars

ScrapeStep ==
    \/ Select(Beat)
    \/ \E n \in PoolRetryConfigs : GetScraper(Beat, n)
    \/ \E up \in BOOLEAN : CheckRateLimit(Beat, up)
    \/ \E prices \in ScrapePriceLists : AttemptOk(Beat, prices)
    \/ AttemptFail(Beat, "retryable")
    \/ StoreOk(Beat)
    \/ MarkChecked(Beat)
    \/ Evaluate(Beat)
    \/ Count(Beat)
    \/ CountFailed(Beat)
    \/ Commit(Beat)
    \/ Ack(Beat)

NextStarve ==
    \/ Tick
    \/ StartTick
    \/ ScrapeStep

\* Beat keeps sending the task (schedule: 300.0) and the worker keeps running it
SpecStarve ==
    InitScrape /\ [][NextStarve]_vars /\ WF_vars(StartTick) /\ WF_vars(ScrapeStep)

\* the tick is ending the run of watch w on a rate-limit denial
Denied(w) ==
    /\ task[Beat].pc = "failed"
    /\ task[Beat].error = "rate_limited"
    /\ Current(Beat) = w

\* C26 (as claimed): with ticks firing for ever, every active watch that is due is
\* eventually marked checked (and so no longer due), unless the rate limiter denies
\* its provider.
C26_DueWatchEventuallyChecked ==
    \A w \in Watches :
        IsDue(watches[w], now) ~> (~IsDue(watches[w], now) \/ Denied(w))

(***************************************************************************)
(* The web client: the auth store (zustand), the tokens in localStorage    *)
(* and one call of the API client's request().  Token 0 is the empty       *)
(* string; NULL is a missing item.                                         *)
(***************************************************************************)
\* the tokens the server issues
MaxToken == 2
Tokens == 1..MaxToken

\* JavaScript truthiness of a token value
Truthy(t) == t # NULL /\ t # 0

\* useAuthStore.setTokens(access, refresh)
setTokens(access, refresh) ==
    /\ IF ~Truthy(access) \/ ~Truthy(refresh)
       THEN UNCHANGED <<localStorage, authStore>>
       ELSE /\ localStorage' = [access_token |-> access, refresh_token |-> refresh]
            /\ authStore' = [authStore EXCEPT !.accessToken = access,
                                              !.refreshToken = refresh,
                                              !.isAuthenticated = TRUE]
    /\ UNCHANGED <<backend, form, req, keychain, isRefreshing, calls>>

\* useAuthStore.logout()
logout ==
    /\ localStorage' = NoTokens
    /\ authStore' = [authStore EXCEPT !.accessToken = NULL,
                                      !.refreshToken = NULL,
                                      !.isAuthenticated = FALSE]
    /\ UNCHANGED <<backend, form, req, keychain, isRefreshing, calls>>

\* useAuthStore.hydrate()
hydrate ==
    /\ authStore' =
        IF Truthy(localStorage.access_token) /\ Truthy(localStorage.refresh_token)
        THEN [authStore EXCEPT !.accessToken = localStorage.access_token,
                               !.refreshToken = localStorage.refresh_token,
                               !.isAuthenticated = TRUE,
                               !.isHydrated = TRUE]
        ELSE [authStore EXCEPT !.isHydrated = TRUE]
    /\ UNCHANGED <<backend, form, localStorage, req, keychain, isRefreshing, calls>>

\* the Authorization header request() builds from localStorage
Bearer(store) == IF Truthy(store.access_token) THEN store.access_token ELSE NULL

\* api.get/post/patch/delete: request(path, options) reads the token and fetches
request ==
    /\ req.pc \in {"idle", "returned", "threw"}
    /\ req' = [IdleRequest EXCEPT !.pc = "fetching",
                                  !.authorization = Bearer(localStorage),
                                  !.fetches = 1]
    /\ UNCHANGED <<backend, form, localStorage, authStore, keychain, isRefreshing, calls>>

\* the outcome of request() for a response that is not a 401 to be refreshed
Settle(r, status) ==
    IF status = "network_error" THEN [r EXCEPT !.pc = "threw", !.error = "network"]
    ELSE IF status \in {"200", "204"} THEN [r EXCEPT !.pc = "returned"]
    ELSE [r EXCEPT !.pc = "threw", !.error = status]

\* (mutant) the retried request is sent with retry still set
RespondRetrying(status) ==
    /\ req.pc = "fetching"
    /\ IF status = "401"
       THEN IF ~Truthy(localStorage.refresh_token)
            THEN /\ localStorage' = NoTokens
                 /\ req' = [req EXCEPT !.pc = "threw", !.error = "Session expired"]
            ELSE /\ req' = [req EXCEPT !.pc = "refreshing", !.refreshes = @ + 1]
                 /\ UNCHANGED localStorage
       ELSE /\ req' = Settle(req, status)
            /\ UNCHANGED localStorage
    /\ UNCHANGED <<backend, form, authStore, keychain, isRefreshing, calls>>

\* the response of fetch() arrives.  On 401 with retry set, refreshAccessToken()
\* starts: without a stored refresh token it returns null at once, and request()
\* clears the tokens, redirects to /login and throws
Respond(status) ==
    /\ req.pc = "fetching"
    /\ IF status = "401" /\ req.retry
       THEN IF ~Truthy(localStorage.refresh_token)
            THEN /\ localStorage' = NoTokens
                 /\ req' = [req EXCEPT !.pc = "threw", !.error = "Session expired"]
            ELSE /\ req' = [req EXCEPT !.pc = "refreshing", !.refreshes = @ + 1]
                 /\ UNCHANGED localStorage
       ELSE /\ req' = Settle(req, status)
            /\ UNCHANGED localStorage
    /\ UNCHANGED <<backend, form, authStore, keychain, isRefreshing, calls>>

\* the answer of POST /auth/refresh arrives.  A response with tokens stores them
\* (the API client's own setTokens, on localStorage only) and, when the new access
\* token is not empty, request() runs again with retry = false.  A response that is
\* not ok, or a network error, clears the tokens; without a new token request()
\* clears them, redirects to /login and throws
Refreshed(outcome, access, refresh) ==
    /\ req.pc = "refreshing"
    /\ IF outcome = "tokens" /\ Truthy(access)
       THEN /\ localStorage' = [access_token |-> access, refresh_token |-> refresh]
            /\ req' = [req EXCEPT !.pc = "fetching",
                                  !.retry = FALSE,
                                  !.newToken = access,
                                  !.authorization = access,
                                  !.fetches = @ + 1]
       ELSE /\ localStorage' = NoTokens
            /\ req' = [req EXCEPT !.pc = "threw", !.error = "Session expired"]
    /\ UNCHANGED <<backend, form, authStore, keychain, isRefreshing, calls>>

\* window.location.href = "/login": the page is loaded anew, with a new store
Navigate ==
    /\ req.pc = "threw"
    /\ req.error = "Session expired"
    /\ authStore' = InitialAuthState
    /\ req' = IdleRequest
    /\ UNCHANGED <<backend, form, localStorage, keychain, isRefreshing, calls>>

\* one step of the call of request()
RequestStep ==
    \/ \E status \in {"200", "204", "401", "500", "network_error"} : Respond(status)
    \/ \E outcome \in {"tokens", "no_data", "not_ok", "network_error"},
          access \in Tokens \cup {0}, refresh \in Tokens :
            Refreshed(outcome, access, refresh)

NextWeb ==
    \/ \E access, refresh \in Tokens \cup {0} : setTokens(access, refresh)
    \/ logout
    \/ hydrate
    \/ request
    \/ RequestStep
    \/ Navigate

InitWeb ==
    /\ BackendIdle
    /\ ClientsIdle

\* every fetch() settles: it resolves with a response or rejects
SpecWeb == InitWeb /\ [][NextWeb]_vars /\ WF_vars(RequestStep)

\* the call of request() has ended
Settled == req.pc \in {"idle", "returned", "threw"}

\* C27: a call of request() refreshes the token at most once and fetches the
\* original request at most twice; a refresh is started only while retry is set,
\* so never by the answer to the retried request; the call throws 'Session
\* expired' only with the stored tokens cleared, and does so whenever the refresh
\* gave no new token; and every call that has started ends, returning or throwing.
C27_OneRefreshOneRetry ==
    /\ [](/\ req.refreshes <= 1
          /\ req.fetches <= 2
          /\ req.pc = "refreshing" => req.retry)
    /\ [][/\ (req.pc = "fetching" /\ ~req.retry) => req'.pc # "refreshing"
          /\ (req.pc = "refreshing" /\ req'.pc # "refreshing" /\ req'.newToken = NULL)
                => req'.pc = "threw" /\ req'.error = "Session expired"
          /\ (req.error # "Session expired" /\ req'.error = "Session expired")
                => req'.pc = "threw" /\ localStorage' = NoTokens]_vars
    /\ (~Settled) ~> Settled

\* the retried request was answered 401 and the call threw without a second refresh
C27_Witness ==
    /\ req.pc = "threw"
    /\ req.error = "401"
    /\ ~req.retry
    /\ req.refreshes = 1
    /\ req.fetches = 2

\* C29 (as claimed): the auth store agrees with localStorage: isAuthenticated only
\* with both tokens stored, and the store's tokens are the stored ones.
C29_StoreAgreesWithStorage ==
    /\ authStore.isAuthenticated =>
            Truthy(localStorage.access_token) /\ Truthy(localStorage.refresh_token)
    /\ authStore.accessToken = localStorage.access_token
    /\ authStore.refreshToken = localStorage.refresh_token

(***************************************************************************)
(* The iOS APIClient: concurrent calls of get/post/patch/delete, the       *)
(* tokens in the Keychain (TokenManager) and the isRefreshing flag.  Token *)
(* 0 is an expired token; the server accepts the tokens it issued.         *)
(***************************************************************************)
Methods == {"get", "post", "patch", "delete"}

\* what the server may answer to a request with Authorization header h
ServerStatuses(h) ==
    IF h \in Tokens THEN {"200", "500", "network_error"} ELSE {"401", "network_error"}

\* what POST /auth/refresh may answer to refresh token r
RefreshOutcomes(r) ==
    IF r \in Tokens THEN {"tokens", "no_data", "network_error"} ELSE {"401", "network_error"}

\* get/post/patch go through perform(), which calls authorizeRequest; delete sends
\* the request as buildRequest made it
Send(c, method) ==
    /\ calls[c].pc \in {"idle", "returned", "threw"}
    /\ ~calls[c].auth_failure
    /\ calls' = [calls EXCEPT ![c] =
            [IdleCall EXCEPT !.pc = "sent",
                             !.method = method,
                             !.stored = keychain.accessToken,
                             !.authorization = IF method = "delete" THEN NULL
                                               ELSE keychain.accessToken]]
    /\ UNCHANGED <<backend, form, localStorage, authStore, req, keychain, isRefreshing>>

\* the response of the first attempt: 401 enters refreshAndRetry(WithResult)
Receive(c, status) ==
    /\ calls[c].pc = "sent"
    /\ status \in ServerStatuses(calls[c].authorization)
    /\ calls' = [calls EXCEPT ![c].pc = IF status = "401" THEN "guard"
                                        ELSE IF status = "200" THEN "returned"
                                        ELSE "threw",
                              ![c].error = IF status \in {"401", "200"} THEN "none"
                                           ELSE status]
    /\ UNCHANGED <<backend, form, localStorage, authStore, req, keychain, isRefreshing>>

\* guard !isRefreshing else { return nil }: the read of the flag.  The methods of
\* the class are not isolated to an actor, so calls run in parallel and the read
\* and the write below are separate accesses
Guard(c) ==
    /\ calls[c].pc = "guard"
    /\ calls' = [calls EXCEPT ![c].pc = IF isRefreshing THEN "threw" ELSE "admitted",
                              ![c].error = IF isRefreshing THEN "unauthorized" ELSE "none"]
    /\ UNCHANGED <<backend, form, localStorage, authStore, req, keychain, isRefreshing>>

\* isRefreshing = true; defer { isRefreshing = false }
SetRefreshing(c) ==
    /\ calls[c].pc = "admitted"
    /\ isRefreshing' = TRUE
    /\ calls' = [calls EXCEPT ![c].pc = "locked"]
    /\ UNCHANGED <<backend, form, localStorage, authStore, req, keychain>>

\* guard let refreshToken = await TokenManager.shared.getRefreshToken(), then the
\* refresh request is sent
SendRefresh(c) ==
    /\ calls[c].pc = "locked"
    /\ IF keychain.refreshToken = NULL
       THEN /\ calls' = [calls EXCEPT ![c].pc = "threw",
                                      ![c].error = "unauthorized",
                                      ![c].auth_failure = TRUE]
            /\ isRefreshing' = FALSE
       ELSE /\ calls' = [calls EXCEPT ![c].pc = "refreshing",
                                      ![c].refresh_sent = keychain.refreshToken]
            /\ UNCHANGED isRefreshing
    /\ UNCHANGED <<backend, form, localStorage, authStore, req, keychain>>

\* the answer of the refresh request: the new tokens are saved and the original
\* request is sent again, authorized; anything else is an auth failure
RefreshResponse(c, outcome, access, refresh) ==
    /\ calls[c].pc = "refreshing"
    /\ outcome \in RefreshOutcomes(calls[c].refresh_sent)
    /\ IF outcome = "tokens"
       THEN /\ keychain' = [accessToken |-> access, refreshToken |-> refresh]
            /\ calls' = [calls EXCEPT ![c].pc = "retrying",
                                      ![c].retry_authorization = access]
            /\ UNCHANGED isRefreshing
       ELSE /\ calls' = [calls EXCEPT ![c].pc = "threw",
                                      ![c].error = "unauthorized",
                                      ![c].auth_failure = TRUE]
            /\ isRefreshing' = FALSE
            /\ UNCHANGED keychain
    /\ UNCHANGED <<backend, form, localStorage, authStore, req>>

\* the answer of the retried request; the deferred isRefreshing = false runs
RetryResponse(c, status) ==
    /\ calls[c].pc = "retrying"
    /\ status \in ServerStatuses(calls[c].retry_authorization)
    /\ calls' = [calls EXCEPT ![c].pc = IF status = "200" THEN "returned" ELSE "threw",
                              ![c].error = IF status = "200" THEN "none"
                                           ELSE "unauthorized",
                              ![c].auth_failure = (status = "network_error")]
    /\ isRefreshing' = FALSE
    /\ UNCHANGED <<backend, form, localStorage, authStore, req, keychain>>

\* handleAuthFailure: onAuthFailure -> AuthViewModel.logout() clears the Keychain
handleAuthFailure(c) ==
    /\ calls[c].auth_failure
    /\ keychain' = NoKeychainTokens
    /\ calls' = [calls EXCEPT ![c].auth_failure = FALSE]
    /\ UNCHANGED <<backend, form, localStorage, authStore, req, isRefreshing>>

NextIOS ==
    \/ \E c \in Calls, method \in Methods : Send(c, method)
    \/ \E c \in Calls, status \in {"200", "401", "500", "network_error"} : Receive(c, status)
    \/ \E c \in Calls : Guard(c)
    \/ \E c \in Calls : SetRefreshing(c)
    \/ \E c \in Calls : SendRefresh(c)
    \/ \E c \in Calls, outcome \in {"tokens", "no_data", "401", "network_error"},
          access, refresh \in Tokens : RefreshResponse(c, outcome, access, refresh)
    \/ \E c \in Calls, status \in {"200", "401", "500", "network_error"} :
            RetryResponse(c, status)
    \/ \E c \in Calls : handleAuthFailure(c)

\* the user is logged in: the Keychain holds tokens, expired or not
InitIOS ==
    /\ BackendIdle
    /\ form = NoForm
    /\ localStorage = NoTokens
    /\ authStore = InitialAuthState
    /\ req = IdleRequest
    /\ keychain \in [accessToken : {0} \cup Tokens, refreshToken : {0} \cup Tokens]
    /\ isRefreshing = FALSE
    /\ calls = [c \in Calls |-> IdleCall]

SpecIOS == InitIOS /\ [][NextIOS]_vars

\* call c is inside refreshAndRetry(WithResult), past isRefreshing = true
Refresher(c) == calls[c].pc \in {"locked", "refreshing", "retrying"}

\* C28 (as claimed): at most one refresh request is in flight, at most one call is
\* admitted as the refresher, and isRefreshing is false whenever no call is
\* refreshing.
C28_SingleRefreshInFlight ==
    /\ Cardinality({c \in Calls : calls[c].pc = "refreshing"}) <= 1
    /\ Cardinality({c \in Calls : Refresher(c)}) <= 1
    /\ (\A c \in Calls : ~Refresher(c)) => ~isRefreshing

\* C30 (as claimed): the first attempt of every call carries the access token that
\* is stored when it is sent, and a delete sent with a valid stored token does not
\* enter the token refresh.
C30_FirstAttemptCarriesToken ==
    \A c \in Calls :
        calls[c].pc # "idle" =>
            /\ calls[c].authorization = calls[c].stored
            /\ (calls[c].method = "delete" /\ calls[c].stored \in Tokens)
                    => calls[c].pc \in {"sent", "returned", "threw"}

====
